---- MODULE Spec2Model ----
\* A model of js/script.js: the gallery controller of the NASA Space Explorer
\* page. The state is the part of the document the script reads and writes
\* (trigger button, gallery children, modal, keyboard focus) and the script's
\* module-level variables; there is one action per event handler or per
\* resumption of the async function fetchAndDisplayImages.
EXTENDS Integers, Sequences, FiniteSets, Bags, TLC

\* ---------------------------------------------------------------- bounds
\* Longest JSON array the source returns in the model.
MaxLen == 2
\* Most invocations of fetchAndDisplayImages that may be pending at once.
MaxCalls == 2

\* ------------------------------------------------------------ JS values
\* A JSON object is a function from the keys it has to strings; a key the
\* object lacks reads as undefined.
Has(item, f) == f \in DOMAIN item

\* JS truthiness of item[f]: undefined and '' are falsy.
Truthy(item, f) == Has(item, f) /\ item[f] # ""

\* item[f1] || item[f2] || ... || '' : the first truthy operand, else ''.
RECURSIVE OrChain(_, _)
OrChain(item, fs) ==
    IF fs = <<>> THEN ""
    ELSE IF Truthy(item, Head(fs)) THEN item[Head(fs)]
    ELSE OrChain(item, Tail(fs))

\* item[f] || dflt
OrDefault(item, f, dflt) == IF Truthy(item, f) THEN item[f] ELSE dflt

\* String.prototype.toLowerCase on the media_type strings of the model.
toLowerCase(s) ==
    CASE s = "IMAGE" -> "image"
      [] s = "Image" -> "image"
      [] s = "Video" -> "video"
      [] s = "VIDEO" -> "video"
      [] OTHER -> s

\* (item.media_type || '').toLowerCase()
MediaTypeOf(item) == toLowerCase(OrDefault(item, "media_type", ""))

\* ------------------------------------------------------ the JSON source
YouTubeWatch == "https://www.youtube.com/watch?v=abc123XYZ"
VimeoUrl == "https://vimeo.com/12345"
ImgUrl == "https://apod.nasa.gov/image/a.jpg"
HdUrl == "https://apod.nasa.gov/image/a_hd.jpg"
ThumbUrl == "https://img.youtube.com/vi/abc123XYZ/0.jpg"

\* An image with every text field and an hdurl only, upper-case media type.
EImage ==
    [media_type |-> "IMAGE", hdurl |-> HdUrl, title |-> "Orion",
     date |-> "2024-01-01", explanation |-> "A nebula."]
\* A YouTube video with a thumbnail; no title, date or explanation.
EVideo == [media_type |-> "Video", url |-> YouTubeWatch, thumbnail_url |-> ThumbUrl, title |-> ""]
\* A media type that is neither image nor video, with a url.
EOther == [media_type |-> "audio", url |-> VimeoUrl, title |-> "Sound"]
\* An image with no usable visual url.
ENoVisual == [media_type |-> "image", url |-> "", title |-> "Nothing"]

Entries == {EImage, EVideo, EOther, ENoVisual}

RECURSIVE SeqsUpTo(_, _)
SeqsUpTo(S, n) ==
    IF n = 0 THEN {<<>>}
    ELSE LET shorter == SeqsUpTo(S, n - 1)
         IN shorter \cup {Append(s, e) : s \in {t \in shorter : Len(t) = n - 1}, e \in S}

\* What response.json() can produce: an array of entry objects, an array
\* holding null (reading item.media_type throws a TypeError), a value that is
\* not an array ({}), or a rejection (the body is not JSON).
ArrayBodies == {[kind |-> "array", items |-> s] : s \in SeqsUpTo(Entries, MaxLen)}
ObjectBody == [kind |-> "object", items |-> <<>>]
InvalidBody == [kind |-> "invalid", items |-> <<>>]
NullElementBody == [kind |-> "arrayWithNull", items |-> <<>>]
Bodies == ArrayBodies \cup {ObjectBody, InvalidBody, NullElementBody}

\* The try block throws on this body: response.json() rejects, or the filter
\* callback reads a property of null.
Throws(body) == body.kind \in {"invalid", "arrayWithNull"}

\* ----------------------------------------------------------------- state
VARIABLES
    btnDisabled,         \* getImagesBtn.disabled
    btnText,             \* getImagesBtn.textContent
    gallery,             \* children of #gallery, in document order
    hasLoadedOnce,
    latestMediaItems,
    modalHidden,         \* modal.classList.contains('hidden')
    modalContent,        \* title, date, description, media and link of the modal
    lastFocusedElement,
    activeElement,       \* document.activeElement
    calls,               \* bag of pending invocations of fetchAndDisplayImages
    idleLabel,           \* history: the trigger's label when the page loaded
    event                \* history: the handler that ran last, and its input

vars ==
    <<btnDisabled, btnText, gallery, hasLoadedOnce, latestMediaItems, modalHidden,
      modalContent, lastFocusedElement, activeElement, calls, idleLabel, event>>

\* ------------------------------------------------------------ DOM nodes
\* Elements that can hold keyboard focus, or be recorded as having held it.
Body == [tag |-> "body", index |-> 0]
TriggerBtn == [tag |-> "getImageBtn", index |-> 0]
CloseBtn == [tag |-> "modalCloseBtn", index |-> 0]
CardEl(i) == [tag |-> "card", index |-> i]
\* A card that clearGallery removed from the document.
DetachedCard == [tag |-> "detachedCard", index |-> 0]
NullEl == [tag |-> "null", index |-> 0]

LoadingText == "Loading space media..."
InitialText == "initial placeholder"
MsgFormat == "Unexpected data format. Please try again later."
MsgEmpty == "No media entries found."
MsgProblem == "There was a problem loading images. Please try again."
LoadingLabel == "Loading..."

PlaceholderDiv(text) == [kind |-> "placeholder", text |-> text]

\* clearGallery as it would be if it left the children in place.
clearGalleryKeeps(g) == g

\* gallery.innerHTML = ''
clearGallery(g) == <<>>

\* showMessage as it would be without its call of clearGallery.
showMessageAppends(g, text) == Append(g, PlaceholderDiv(text))

\* showMessage(text): the children of the gallery afterwards.
showMessage(g, text) == Append(clearGallery(g), PlaceholderDiv(text))

\* showLoading(): the children of the gallery afterwards.
showLoading(g) == Append(clearGallery(g), PlaceholderDiv(LoadingText))

\* The document after the gallery's children were replaced: a removed card
\* loses focus to the body, and a reference to it is to a detached node.
BlurRemoved(el) == IF el.tag = "card" THEN Body ELSE el
DetachRemoved(el) == IF el.tag = "card" THEN DetachedCard ELSE el

\* createGalleryItem(item, index): the card, with the index its handlers close over.
createGalleryItem(item, index) ==
    LET mediaType == MediaTypeOf(item)
        displaySrc ==
            IF mediaType = "video" THEN OrChain(item, <<"thumbnail_url", "url">>)
            ELSE OrChain(item, <<"url", "hdurl">>)
    IN [kind |-> "card",
        index |-> index,
        src |-> displaySrc,
        alt |-> IF Truthy(item, "title")
                THEN <<item["title"], " - ", IF Has(item, "date") THEN item["date"] ELSE "undefined">>
                ELSE IF mediaType = "video" THEN <<"Space video">> ELSE <<"Space image">>,
        caption |-> <<IF mediaType = "video" THEN "play " ELSE "",
                      OrDefault(item, "title", "Untitled"),
                      OrDefault(item, "date", "Unknown date")>>]

\* mediaItems.forEach((item, idx) => gallery.appendChild(createGalleryItem(item, idx)))
RECURSIVE AppendCards(_, _, _)
AppendCards(g, items, idx) ==
    IF idx >= Len(items) THEN g
    ELSE AppendCards(Append(g, createGalleryItem(items[idx + 1], idx)), items, idx + 1)

\* The filter as it would be if only item.url counted as a visual.
FilterPredicateUrlOnly(item) ==
    LET type == MediaTypeOf(item)
    IN (type = "image" \/ type = "video") /\ Truthy(item, "url")

\* data.filter(item => (type === 'image' || type === 'video') && hasVisual)
FilterPredicate(item) ==
    LET type == MediaTypeOf(item)
        hasVisual == Truthy(item, "url") \/ Truthy(item, "hdurl") \/ Truthy(item, "thumbnail_url")
    IN (type = "image" \/ type = "video") /\ hasVisual

RECURSIVE FilterMedia(_)
FilterMedia(data) ==
    IF data = <<>> THEN <<>>
    ELSE IF FilterPredicate(Head(data)) THEN <<Head(data)>> \o FilterMedia(Tail(data))
    ELSE FilterMedia(Tail(data))

\* ------------------------------------------------------------- the modal
\* new URL(url) on the urls of the model: hostname, the v search parameter,
\* the id the /embed/ pattern captures, and pathname.replace('/', '').trim().
ParseURL(url) ==
    CASE url = YouTubeWatch ->
           [valid |-> TRUE, hostname |-> "www.youtube.com", v |-> "abc123XYZ",
            embedId |-> "", pathId |-> "watch"]
      [] url = "https://www.youtube.com/embed/abc123XYZ" ->
           [valid |-> TRUE, hostname |-> "www.youtube.com", v |-> "",
            embedId |-> "abc123XYZ", pathId |-> "embed/abc123XYZ"]
      [] url = "https://youtu.be/abc123XYZ" ->
           [valid |-> TRUE, hostname |-> "youtu.be", v |-> "", embedId |-> "",
            pathId |-> "abc123XYZ"]
      [] url = VimeoUrl ->
           [valid |-> TRUE, hostname |-> "vimeo.com", v |-> "", embedId |-> "",
            pathId |-> "12345"]
      [] url \in {ImgUrl, HdUrl} ->
           [valid |-> TRUE, hostname |-> "apod.nasa.gov", v |-> "", embedId |-> "",
            pathId |-> "image/a.jpg"]
      [] url = ThumbUrl ->
           [valid |-> TRUE, hostname |-> "img.youtube.com", v |-> "", embedId |-> "",
            pathId |-> "vi/abc123XYZ/0.jpg"]
      [] OTHER ->
           [valid |-> FALSE, hostname |-> "", v |-> "", embedId |-> "", pathId |-> ""]

\* u.hostname.includes('youtube.com')
IncludesYouTube(hostname) == hostname \in {"www.youtube.com", "youtube.com", "img.youtube.com"}

\* extractYouTubeId(url); null is the empty string (every id returned is truthy).
extractYouTubeId(url) ==
    IF url = "" THEN ""
    ELSE LET u == ParseURL(url)
         IN IF ~u.valid THEN ""
            ELSE IF IncludesYouTube(u.hostname) /\ u.v # "" THEN u.v
            ELSE IF IncludesYouTube(u.hostname) /\ u.embedId # "" THEN u.embedId
            ELSE IF u.hostname = "youtu.be" /\ u.pathId # "" THEN u.pathId
            ELSE ""

EmptyModal == [title |-> "", date |-> "", description |-> "", media |-> <<>>, link |-> <<>>]

Anchor(href, text) == [tag |-> "a", href |-> href, text |-> text]

\* The modal's text and media after openModalByIndex populated it for item.
ModalFor(item) ==
    LET mediaType == MediaTypeOf(item)
        url == OrDefault(item, "url", "")
        youTubeId == extractYouTubeId(url)
    IN [title |-> OrDefault(item, "title", "Untitled"),
        date |-> OrDefault(item, "date", ""),
        description |-> OrDefault(item, "explanation", "No explanation available."),
        media |->
            IF mediaType = "video"
            THEN IF youTubeId # ""
                 THEN <<[tag |-> "iframe", src |-> <<"https://www.youtube.com/embed/", youTubeId, "?rel=0">>,
                         title |-> OrDefault(item, "title", "YouTube video")]>>
                 ELSE <<[tag |-> "img", src |-> OrChain(item, <<"thumbnail_url", "url">>),
                         alt |-> OrDefault(item, "title", "Space video")]>>
            ELSE <<[tag |-> "img", src |-> OrChain(item, <<"hdurl", "url">>),
                    alt |-> OrDefault(item, "title", "Space image")]>>,
        link |->
            IF mediaType = "video"
            THEN IF youTubeId # "" THEN <<Anchor(url, "Open on YouTube")>>
                 ELSE IF url # "" THEN <<Anchor(url, "Open Video in New Tab")>>
                 ELSE <<>>
            ELSE <<>>]

\* openModalByIndex as it would be if it took index for a 1-based position.
openModalByPosition(index, active) ==
    IF index \in 1..Len(latestMediaItems)
    THEN /\ lastFocusedElement' = active
         /\ modalContent' = ModalFor(latestMediaItems[index])
         /\ modalHidden' = FALSE
         /\ activeElement' = CloseBtn
    ELSE /\ activeElement' = active
         /\ UNCHANGED <<lastFocusedElement, modalContent, modalHidden>>

\* openModalByIndex(index), called while `active` is document.activeElement.
openModalByIndex(index, active) ==
    IF index + 1 \in 1..Len(latestMediaItems)
    THEN /\ lastFocusedElement' = active
         /\ modalContent' = ModalFor(latestMediaItems[index + 1])
         /\ modalHidden' = FALSE
         /\ activeElement' = CloseBtn
    ELSE /\ activeElement' = active
         /\ UNCHANGED <<lastFocusedElement, modalContent, modalHidden>>

\* Whether el.focus() moves the focus: the element is in the document,
\* shown and enabled.
Focusable(el, hidden) ==
    \/ el.tag = "card"
    \/ el.tag = "getImageBtn" /\ ~btnDisabled
    \/ el.tag = "modalCloseBtn" /\ ~hidden

\* closeModal()
closeModal ==
    /\ modalHidden' = TRUE
    /\ activeElement' =
          IF lastFocusedElement.tag # "null" /\ Focusable(lastFocusedElement, TRUE)
          THEN lastFocusedElement
          ELSE IF activeElement = CloseBtn THEN Body ELSE activeElement
    /\ UNCHANGED <<modalContent, lastFocusedElement>>

\* ------------------------------------------------- fetchAndDisplayImages
NoInput == [kind |-> "none", items |-> <<>>]
Ev(name, input, index) ==
    [name |-> name, kind |-> input.kind, items |-> input.items, index |-> index]

Pending(pc) == {c \in BagToSet(calls) : c.pc = pc}

\* The prefix as it would be without getImagesBtn.disabled = true.
fetchStartLeavesEnabled ==
    /\ BagCardinality(calls) < MaxCalls
    /\ btnText' = LoadingLabel
    /\ gallery' = showLoading(gallery)
    /\ activeElement' = BlurRemoved(activeElement)
    /\ lastFocusedElement' = DetachRemoved(lastFocusedElement)
    /\ calls' = calls (+) SetToBag({[pc |-> "awaitFetch", originalBtnText |-> btnText]})
    /\ UNCHANGED <<btnDisabled, hasLoadedOnce, latestMediaItems, modalHidden, modalContent,
                   idleLabel>>

\* Lines 225-234: the synchronous prefix, up to the await of fetch(apodData).
\* The invocation keeps its own originalBtnText.
fetchStart ==
    /\ BagCardinality(calls) < MaxCalls
    /\ btnDisabled' = TRUE
    /\ btnText' = LoadingLabel
    /\ gallery' = showLoading(gallery)
    /\ activeElement' = BlurRemoved(activeElement)
    /\ lastFocusedElement' = DetachRemoved(lastFocusedElement)
    /\ calls' = calls (+) SetToBag({[pc |-> "awaitFetch", originalBtnText |-> btnText]})
    /\ UNCHANGED <<hasLoadedOnce, latestMediaItems, modalHidden, modalContent, idleLabel>>

\* The restore as it would be at the end of the try block instead of in a
\* finally: only the path that rendered cards reaches it.
restoreAtEndOfTry(c) ==
    /\ IF \E p \in 1..Len(gallery') : gallery'[p].kind = "card"
       THEN btnDisabled' = FALSE /\ btnText' = c.originalBtnText
       ELSE UNCHANGED <<btnDisabled, btnText>>
    /\ calls' = calls (-) SetToBag({c})

\* Lines 273-277: the finally block of invocation c, which then ends.
finallyBlock(c) ==
    /\ btnDisabled' = FALSE
    /\ btnText' = c.originalBtnText
    /\ calls' = calls (-) SetToBag({c})

\* Lines 269-272: the catch block.
catchBlock ==
    /\ gallery' = showMessage(gallery, MsgProblem)
    /\ activeElement' = BlurRemoved(activeElement)
    /\ lastFocusedElement' = DetachRemoved(lastFocusedElement)
    /\ UNCHANGED <<hasLoadedOnce, latestMediaItems>>

\* The body of the try block as it would be without the Array.isArray check:
\* data.filter throws on a value that is not an array.
afterJsonNoArrayCheck(c, body) ==
    IF Throws(body) \/ body.kind # "array"
    THEN catchBlock
    ELSE /\ activeElement' = BlurRemoved(activeElement)
         /\ lastFocusedElement' = DetachRemoved(lastFocusedElement)
         /\ LET mediaItems == FilterMedia(body.items)
            IN IF Len(mediaItems) = 0
               THEN /\ gallery' = showMessage(gallery, MsgEmpty)
                    /\ UNCHANGED <<hasLoadedOnce, latestMediaItems>>
               ELSE /\ gallery' = AppendCards(clearGallery(gallery), mediaItems, 0)
                    /\ latestMediaItems' = mediaItems
                    /\ hasLoadedOnce' = TRUE

\* The body of the try block as it would be if rendering removed only the
\* placeholder, and kept the cards the gallery holds when the response arrives.
afterJsonAppendsCards(c, body) ==
    IF Throws(body)
    THEN catchBlock
    ELSE /\ activeElement' = BlurRemoved(activeElement)
         /\ lastFocusedElement' = DetachRemoved(lastFocusedElement)
         /\ IF body.kind # "array"
            THEN /\ gallery' = showMessage(gallery, MsgFormat)
                 /\ UNCHANGED <<hasLoadedOnce, latestMediaItems>>
            ELSE LET mediaItems == FilterMedia(body.items)
                 IN IF Len(mediaItems) = 0
                    THEN /\ gallery' = showMessage(gallery, MsgEmpty)
                         /\ UNCHANGED <<hasLoadedOnce, latestMediaItems>>
                    ELSE /\ gallery' = AppendCards(SelectSeq(gallery, LAMBDA n : n.kind = "card"), mediaItems, 0)
                         /\ latestMediaItems' = mediaItems
                         /\ hasLoadedOnce' = TRUE

\* Lines 240-268 once response.json() settled with body, for invocation c.
afterJson(c, body) ==
    IF Throws(body)
    THEN catchBlock
    ELSE /\ activeElement' = BlurRemoved(activeElement)
         /\ lastFocusedElement' = DetachRemoved(lastFocusedElement)
         /\ IF body.kind # "array"
            THEN /\ gallery' = showMessage(gallery, MsgFormat)
                 /\ UNCHANGED <<hasLoadedOnce, latestMediaItems>>
            ELSE LET mediaItems == FilterMedia(body.items)
                 IN IF Len(mediaItems) = 0
                    THEN /\ gallery' = showMessage(gallery, MsgEmpty)
                         /\ UNCHANGED <<hasLoadedOnce, latestMediaItems>>
                    ELSE /\ gallery' = AppendCards(clearGallery(gallery), mediaItems, 0)
                         /\ latestMediaItems' = mediaItems
                         /\ hasLoadedOnce' = TRUE

\* The click listener of the trigger; a disabled button dispatches no click.
ClickTrigger ==
    /\ ~btnDisabled
    /\ fetchStart
    /\ event' = Ev("click", NoInput, 0)

\* fetchAndDisplayImages called again while an invocation is pending, past the
\* disabled button.
ReenterWhileLoading ==
    /\ calls # EmptyBag
    /\ fetchStart
    /\ event' = Ev("reenter", NoInput, 0)

\* fetch() rejects: catch, finally.
FetchRejected ==
    \E c \in Pending("awaitFetch") :
        /\ catchBlock
        /\ finallyBlock(c)
        /\ event' = Ev("finished", [kind |-> "rejected", items |-> <<>>], 0)
        /\ UNCHANGED <<modalHidden, modalContent, idleLabel>>

\* fetch() resolves with !response.ok: throw, catch, finally.
FetchNotOk ==
    \E c \in Pending("awaitFetch") :
        /\ catchBlock
        /\ finallyBlock(c)
        /\ event' = Ev("finished", [kind |-> "notok", items |-> <<>>], 0)
        /\ UNCHANGED <<modalHidden, modalContent, idleLabel>>

\* fetch() resolves with response.ok: the invocation awaits response.json().
FetchOk ==
    \E c \in Pending("awaitFetch") :
        /\ calls' = (calls (-) SetToBag({c})) (+) SetToBag({[c EXCEPT !.pc = "awaitJson"]})
        /\ event' = Ev("response", NoInput, 0)
        /\ UNCHANGED <<btnDisabled, btnText, gallery, hasLoadedOnce, latestMediaItems,
                       modalHidden, modalContent, lastFocusedElement, activeElement,
                       idleLabel>>

\* response.json() settles: the rest of the try block, then finally.
JsonSettled ==
    \E c \in Pending("awaitJson") : \E body \in Bodies :
        /\ afterJson(c, body)
        /\ finallyBlock(c)
        /\ event' = Ev("finished", body, 0)
        /\ UNCHANGED <<modalHidden, modalContent, idleLabel>>

\* ------------------------------------------------------- other listeners
CardPositions == {p \in 1..Len(gallery) : gallery[p].kind = "card"}

\* Click, Enter or Space on the card at position p; the card has the focus
\* when its listener runs.
ActivateCard ==
    \E p \in CardPositions :
        /\ openModalByIndex(gallery[p].index, CardEl(gallery[p].index))
        /\ event' = Ev("activate", NoInput, p)
        /\ UNCHANGED <<btnDisabled, btnText, gallery, hasLoadedOnce, latestMediaItems,
                       calls, idleLabel>>

\* Click on the close control of the open modal.
CloseBtnClick ==
    /\ ~modalHidden
    /\ closeModal
    /\ event' = Ev("closeBtn", NoInput, 0)
    /\ UNCHANGED <<btnDisabled, btnText, gallery, hasLoadedOnce, latestMediaItems,
                   calls, idleLabel>>

\* Click on the backdrop (data-close="true") of the open modal.
BackdropClick ==
    /\ ~modalHidden
    /\ closeModal
    /\ event' = Ev("backdrop", NoInput, 0)
    /\ UNCHANGED <<btnDisabled, btnText, gallery, hasLoadedOnce, latestMediaItems,
                   calls, idleLabel>>

\* The listener as it would be without the test of the hidden class.
keydownEscapeAlwaysCloses == closeModal

\* The document's keydown listener, for the Escape key.
keydownEscape ==
    IF ~modalHidden
    THEN closeModal
    ELSE UNCHANGED <<modalHidden, modalContent, lastFocusedElement, activeElement>>

KeydownEscape ==
    /\ keydownEscape
    /\ event' = Ev("escape", NoInput, 0)
    /\ UNCHANGED <<btnDisabled, btnText, gallery, hasLoadedOnce, latestMediaItems,
                   calls, idleLabel>>

\* The user moves the keyboard focus (Tab, or a click on a blank area).
FocusTargets ==
    {Body} \cup {CardEl(gallery[p].index) : p \in CardPositions}
    \cup (IF btnDisabled THEN {} ELSE {TriggerBtn})
    \cup (IF modalHidden THEN {} ELSE {CloseBtn})

FocusMove ==
    \E el \in FocusTargets \ {activeElement} :
        /\ activeElement' = el
        /\ event' = Ev("focus", NoInput, 0)
        /\ UNCHANGED <<btnDisabled, btnText, gallery, hasLoadedOnce, latestMediaItems,
                       modalHidden, modalContent, lastFocusedElement, calls, idleLabel>>

\* -------------------------------------------------------- specifications
Labels == {"Get Space Images"}

Init ==
    /\ btnDisabled = FALSE
    /\ btnText \in Labels
    /\ idleLabel = btnText
    /\ gallery = <<PlaceholderDiv(InitialText)>>
    /\ hasLoadedOnce = FALSE
    /\ latestMediaItems = <<>>
    /\ modalHidden = TRUE
    /\ modalContent = EmptyModal
    /\ lastFocusedElement = NullEl
    /\ activeElement = Body
    /\ calls = EmptyBag
    /\ event = Ev("load", NoInput, 0)

\* The page as the user drives it: the trigger starts every invocation.
Next ==
    \/ ClickTrigger
    \/ FetchRejected
    \/ FetchNotOk
    \/ FetchOk
    \/ JsonSettled
    \/ ActivateCard
    \/ CloseBtnClick
    \/ BackdropClick
    \/ KeydownEscape
    \/ FocusMove

Spec == Init /\ [][Next]_vars

\* The page where a caller may also invoke fetchAndDisplayImages while an
\* invocation is pending. Focus moves only as the handlers move it.
NextBypass ==
    \/ ClickTrigger
    \/ ReenterWhileLoading
    \/ FetchRejected
    \/ FetchNotOk
    \/ FetchOk
    \/ JsonSettled
    \/ ActivateCard
    \/ CloseBtnClick
    \/ BackdropClick
    \/ KeydownEscape

SpecBypass == Init /\ [][NextBypass]_vars

\* Once the response arrived, reading its body settles.
FairSpec == Spec /\ WF_vars(JsonSettled)

\* ------------------------------------------------------------ properties
\* An invocation of fetchAndDisplayImages has just ended.
IsFinished == event.name = "finished"

\* The inclusion rule of the working set, stated on the entry's own fields.
Displayable(e) ==
    /\ "media_type" \in DOMAIN e
    /\ toLowerCase(e["media_type"]) \in {"image", "video"}
    /\ \E f \in {"url", "hdurl", "thumbnail_url"} : f \in DOMAIN e /\ e[f] # ""

Survivors(items) == SelectSeq(items, Displayable)

\* The invocation that just ended got an array with a displayable entry.
EndedWithCards == IsFinished /\ event.kind = "array" /\ Survivors(event.items) # <<>>
EndedWithError == IsFinished /\ ~EndedWithCards

\* The message each way of failing is to show.
ExpectedMessage ==
    CASE event.kind = "array" -> MsgEmpty
      [] event.kind = "object" -> MsgFormat
      [] OTHER -> MsgProblem

TitleShown(e) == IF "title" \in DOMAIN e /\ e["title"] # "" THEN e["title"] ELSE "Untitled"
DateOf(e) == IF "date" \in DOMAIN e THEN e["date"] ELSE ""
ExplanationShown(e) ==
    IF "explanation" \in DOMAIN e /\ e["explanation"] # "" THEN e["explanation"]
    ELSE "No explanation available."

\* The gallery holds one card per entry of items, in order, and nothing else.
ShowsExactly(items) ==
    /\ Len(gallery) = Len(items)
    /\ \A p \in 1..Len(gallery) :
          /\ gallery[p].kind = "card"
          /\ gallery[p].index = p - 1
          /\ gallery[p].caption[2] = TitleShown(items[p])
          /\ gallery[p].caption[3] = (IF DateOf(items[p]) = "" THEN "Unknown date" ELSE DateOf(items[p]))

TriggerRestored == ~btnDisabled /\ btnText = idleLabel

\* C1: under the gate, every invocation that ends, however it ends, leaves the
\* trigger enabled with the label it had before the invocation; and once the
\* response has arrived the invocation does end so, with no invocation pending.
C1_TriggerRestoredOnEveryExit ==
    /\ [](IsFinished => TriggerRestored)
    /\ (Pending("awaitJson") # {}) ~> (calls = EmptyBag /\ TriggerRestored)

C1_Witness ==
    /\ EndedWithError
    /\ event.kind = "object"
    /\ TriggerRestored
    /\ calls = EmptyBag

\* C2: under the gate at most one invocation is pending, and while one is
\* pending the trigger is disabled and reads "Loading...".
C2_OneFetchInFlight ==
    /\ BagCardinality(calls) <= 1
    /\ calls # EmptyBag => btnDisabled /\ btnText = "Loading..."

C2_Witness == Pending("awaitJson") # {} /\ btnDisabled /\ hasLoadedOnce

C4_ErrorLeavesOneMessage ==
    EndedWithError =>
        /\ Len(gallery) = 1
        /\ gallery[1].kind = "placeholder"
        /\ gallery[1].text \in {MsgEmpty, MsgFormat, MsgProblem}

C4_Witness == EndedWithError /\ hasLoadedOnce /\ event.kind = "notok" /\ Len(gallery) = 1

\* C5: each way of failing shows its own message: the empty-result message
\* for an array of entries with no displayable entry, the format message for a
\* value that is not an array, the generic one for a non-2xx response, a
\* rejected fetch or a body that does not parse; and none of them renders a card.
C5_MessagePerErrorKind ==
    EndedWithError /\ event.kind \in {"array", "object", "notok", "rejected", "invalid"} =>
        gallery = <<PlaceholderDiv(ExpectedMessage)>>

C5_Witness ==
    /\ EndedWithError
    /\ event.kind = "object"
    /\ gallery = <<PlaceholderDiv("Unexpected data format. Please try again later.")>>

\* C6: every card shown carries the index of an entry of latestMediaItems, the
\* entry it was rendered from, and activating the card at a position opens the
\* modal with that entry's title (or Untitled), date and explanation (or the
\* default text).
C6_CardOpensItsEntry ==
    /\ \A p \in CardPositions :
          /\ gallery[p].index + 1 \in 1..Len(latestMediaItems)
          /\ gallery[p].caption[2] = TitleShown(latestMediaItems[gallery[p].index + 1])
    /\ event.name = "activate" =>
          /\ event.index \in 1..Len(latestMediaItems)
          /\ ~modalHidden
          /\ modalContent.title = TitleShown(latestMediaItems[event.index])
          /\ modalContent.date = DateOf(latestMediaItems[event.index])
          /\ modalContent.description = ExplanationShown(latestMediaItems[event.index])

C6_Witness ==
    /\ event.name = "activate"
    /\ event.index = 2
    /\ latestMediaItems = <<EImage, EVideo>>
    /\ modalContent.title = "Untitled"
    /\ modalContent.description = "No explanation available."
    /\ lastFocusedElement = CardEl(1)

\* C7: a render leaves exactly one card per entry of latestMediaItems, in
\* order, and nothing of an earlier render: whenever the gallery holds a card
\* it holds exactly the cards of latestMediaItems, and an invocation that
\* ended with displayable entries shows them.
C7_RenderReplacesGallery ==
    /\ EndedWithCards => CardPositions # {}
    /\ CardPositions # {} => ShowsExactly(latestMediaItems)

C7_Witness ==
    /\ EndedWithCards
    /\ lastFocusedElement = DetachedCard
    /\ event.items = <<EImage, EImage>>
    /\ Len(gallery) = 2

\* C8: Escape pressed while the modal is hidden changes nothing of the page;
\* pressed while the modal is shown it hides the modal.
C8_EscapeOnlyClosesOpenModal ==
    [][event'.name = "escape" =>
          IF modalHidden
          THEN UNCHANGED <<btnDisabled, btnText, gallery, hasLoadedOnce, latestMediaItems,
                           modalHidden, modalContent, lastFocusedElement, activeElement,
                           calls>>
          ELSE modalHidden']_vars

C8_Witness ==
    /\ event.name = "escape"
    /\ modalHidden
    /\ lastFocusedElement.tag = "card"
    /\ activeElement = TriggerBtn

\* C9: when invocations overlap, each one that ends overwrites the gallery with
\* its own outcome alone, so the gallery shows the outcome of the invocation
\* that ended last; the cards shown are those of latestMediaItems.
C9_LastToEndOverwrites ==
    /\ EndedWithError => gallery = <<PlaceholderDiv(ExpectedMessage)>>
    /\ EndedWithCards => ShowsExactly(Survivors(event.items))
    /\ CardPositions # {} => ShowsExactly(latestMediaItems)

\* Two invocations overlapped (the label was captured as "Loading...") and
\* both have ended, the last one with cards.
C9_Witness ==
    /\ EndedWithCards
    /\ calls = EmptyBag
    /\ btnText = LoadingLabel
    /\ hasLoadedOnce
    /\ Len(gallery) = 1

\* C10: once every overlapping invocation has ended, the trigger is enabled
\* and carries the idle label it had before the first of them.
C10_RestoredAfterOverlap == calls = EmptyBag => TriggerRestored

====
